---- MODULE Spec2Model ----
(***************************************************************************)
(* A model of csv2xml (src/app.py): the column-name sanitizer, the table   *)
(* serializer convert_df_to_pretty_xml, the round-trip verifier            *)
(* test_conversion_accuracy and the conversion cycle of main.              *)
(*                                                                         *)
(* A Python str is a sequence of one-character strings.  A cell of the     *)
(* DataFrame is a record [kind, s]: kind "str" is a Python str whose       *)
(* characters are s, kind "num" is a number whose str() is s, kind "obj"   *)
(* is an object whose __str__ raises, and kind "objf" is an object whose   *)
(* __str__ raises and whose class defines a __format__ that does not.      *)
(***************************************************************************)
EXTENDS Integers, Sequences, FiniteSets, TLC

VARIABLES
    caller,     \* "main": the cycle of main(); "direct": the two functions called one after the other
    input,      \* the uploaded file: no file, an unreadable file, or the table the reader returns
    df,         \* the caller's DataFrame object (convert_df_to_pretty_xml assigns its columns)
    root,       \* the ElementTree built by convert_df_to_pretty_xml
    xml_file,   \* the BytesIO buffer returned by convert_df_to_pretty_xml
    test,       \* the pair returned by test_conversion_accuracy
    out,        \* what has been written to the streamlit page, in order
    pc,         \* position in the cycle
    rawName,    \* clean_column_name applied on its own: the argument
    cleaned     \* ... and its result

vars == <<caller, input, df, root, xml_file, test, out, pc, rawName, cleaned>>

-----------------------------------------------------------------------------
(* Bounds *)

MaxRows == 2
MaxCols == 2
MaxLen == 1
MaxColLen == 1
MaxNameLen == 4
MaxTextLen == 3

-----------------------------------------------------------------------------
(* Characters *)

Letters ==
    {"a", "b", "c", "d", "e", "f", "g", "h", "i", "j", "k", "l", "m", "n", "o",
     "p", "q", "r", "s", "t", "u", "v", "w", "x", "y", "z", "I", "R"}

Digits == {"0", "1", "2", "3", "4", "5", "6", "7", "8", "9"}

\* \w of the re module
IsWord(c) == c \in Letters \cup Digits \cup {"_"}

IsAlnum(c) == c \in Letters \cup Digits

SeqsUpTo(S, lo, hi) == UNION {[1..n -> S] : n \in lo..hi}

IsPrefix(p, s) == Len(p) <= Len(s) /\ SubSeq(s, 1, Len(p)) = p

Drop(s, n) == SubSeq(s, n + 1, Len(s))

Min(a, b) == IF a < b THEN a ELSE b

\* str.replace(c, r) for a one-character c
RECURSIVE Replace(_, _, _)
Replace(s, c, r) ==
    IF s = <<>> THEN <<>>
    ELSE (IF Head(s) = c THEN r ELSE <<Head(s)>>) \o Replace(Tail(s), c, r)

AMP == <<"&", "a", "m", "p", ";">>
LT == <<"&", "l", "t", ";">>
GT == <<"&", "g", "t", ";">>
QUOT == <<"&", "q", "u", "o", "t", ";">>
APOS == <<"&", "a", "p", "o", "s", ";">>
X27 == <<"&", "#", "x", "2", "7", ";">>

-----------------------------------------------------------------------------
(* clean_column_name: re.sub(r"\W+", "_", name) *)

RECURSIVE SubRuns(_, _)
SubRuns(s, inRun) ==
    IF s = <<>> THEN <<>>
    ELSE IF IsWord(Head(s))
         THEN <<Head(s)>> \o SubRuns(Tail(s), FALSE)
         ELSE (IF inRun THEN <<>> ELSE <<"_">>) \o SubRuns(Tail(s), TRUE)

\* the bug of a pattern without "+": every non-word character becomes an underscore
clean_column_name_each(name) ==
    [i \in 1..Len(name) |-> IF IsWord(name[i]) THEN name[i] ELSE "_"]

clean_column_name(name) == SubRuns(name, FALSE)


-----------------------------------------------------------------------------
(* Text escaping and decoding *)

\* clean_data: only a str is rewritten
clean_data(value) ==
    IF value.kind = "str"
    THEN [value EXCEPT !.s = Replace(Replace(Replace(@, "&", AMP), "<", LT), ">", GT)]
    ELSE value

\* html.escape(s), quote=True
html_escape(s) ==
    Replace(Replace(Replace(Replace(Replace(s, "&", AMP), "<", LT), ">", GT), "\"", QUOT), "'", X27)

\* ElementTree._escape_cdata, applied to a leaf's text by ET.tostring
escape_cdata(text) == Replace(Replace(Replace(text, "&", AMP), "<", LT), ">", GT)

\* minidom._write_data, applied to a text node by toprettyxml
write_data(data) ==
    Replace(Replace(Replace(Replace(data, "&", AMP), "<", LT), "\"", QUOT), ">", GT)

\* the references an XML parser resolves in character data
Entities ==
    {[e |-> AMP, c |-> "&"], [e |-> LT, c |-> "<"], [e |-> GT, c |-> ">"],
     [e |-> QUOT, c |-> "\""], [e |-> APOS, c |-> "'"], [e |-> X27, c |-> "'"]}

EntityAt(s) == {x \in Entities : IsPrefix(x.e, s)}

\* character data is well formed: no bare "<", every "&" starts a reference
RECURSIVE TextOk(_)
TextOk(s) ==
    \/ s = <<>>
    \/ /\ s # <<>>
       /\ IF Head(s) = "&"
          THEN /\ EntityAt(s) # {}
               /\ TextOk(Drop(s, Len((CHOOSE x \in EntityAt(s) : TRUE).e)))
          ELSE Head(s) # "<" /\ TextOk(Tail(s))

\* the parser's single decoding of character data
RECURSIVE Unescape(_)
Unescape(s) ==
    IF s = <<>> THEN <<>>
    ELSE IF Head(s) = "&" /\ EntityAt(s) # {}
         THEN LET x == CHOOSE y \in EntityAt(s) : TRUE
              IN  <<x.c>> \o Unescape(Drop(s, Len(x.e)))
         ELSE <<Head(s)>> \o Unescape(Tail(s))

\* an XML name: what the parser accepts as a tag
IsXmlName(tag) ==
    /\ tag # <<>>
    /\ tag[1] \in Letters \cup {"_"}
    /\ \A k \in 1..Len(tag) : tag[k] \in Letters \cup Digits \cup {"_", "-", "."}

None == [some |-> FALSE, s |-> <<>>]
Some(t) == [some |-> TRUE, s |-> t]

-----------------------------------------------------------------------------
(* Reading cells of a row *)

\* row[col_name]: the cells under that label (more than one when labels repeat)
RECURSIVE Pick(_, _, _)
Pick(cols, row, name) ==
    IF cols = <<>> THEN <<>>
    ELSE (IF Head(cols) = name THEN <<Head(row)>> ELSE <<>>)
         \o Pick(Tail(cols), Tail(row), name)

\* str(value) raises
StrRaises(v) == \E k \in 1..Len(v) : v[k].kind \in {"obj", "objf"}

\* format(value, "") in an f-string: object.__format__ calls str(value), so it
\* raises when str() does unless the value's class brings its own __format__
FormatRaises(v) == IF Len(v) = 1 THEN v[1].kind = "obj" ELSE StrRaises(v)

\* str() of a Series (repeated label): one "label value" line per cell
RECURSIVE SeriesRepr(_, _)
SeriesRepr(name, v) ==
    IF v = <<>> THEN <<>>
    ELSE name \o <<" ">> \o Head(v).s \o <<"\n">> \o SeriesRepr(name, Tail(v))

Str(name, v) == IF Len(v) = 1 THEN v[1].s ELSE SeriesRepr(name, v)

-----------------------------------------------------------------------------
(* What is written to the page *)

EvLoaded == <<"st.success", "loaded">>
EvPreview == <<"st.dataframe", "preview">>
EvCellError(col_name, i) == <<"st.error", "cell", col_name, i>>
EvOriginalValue == <<"st.write", "original value">>
EvFormatError == <<"st.error", "formatting">>
EvSnippetHeader == <<"st.write", "snippet header">>
EvRawXml(s) == <<"st.write", "raw xml", s>>
EvDownload == <<"st.download_button", "output.xml">>
EvVerified == <<"st.success", "verified">>
EvMismatch(m) == <<"st.error", "mismatch", m>>
EvFailure == <<"st.error", "failure">>
EvTime == <<"st.sidebar.write", "execution time">>

SnippetLen == 500

-----------------------------------------------------------------------------
(* convert_df_to_pretty_xml *)

\* the body of the loop over the columns
ConvertCell(cols, row, i, col_name) ==
    LET v == Pick(cols, row, col_name)
    IN  IF ~StrRaises(v)
        THEN [leaf |-> [tag |-> col_name, text |-> Some(html_escape(Str(col_name, v)))],
              out |-> <<>>, exc |-> FALSE]
        ELSE [leaf |-> [tag |-> col_name, text |-> None],
              out |-> <<EvCellError(col_name, i)>>
                      \o (IF FormatRaises(v) THEN <<>> ELSE <<EvOriginalValue>>),
              exc |-> FormatRaises(v)]

\* the bug of a tree keyed by tag: a repeated tag replaces the earlier leaf
RECURSIVE ConvertRow_overwrite(_, _, _, _, _)
ConvertRow_overwrite(cols, row, i, j, acc) ==
    IF acc.exc \/ j > Len(cols) THEN acc
    ELSE LET c == ConvertCell(cols, row, i, cols[j])
             dup == \E k \in 1..Len(acc.item) : acc.item[k].tag = c.leaf.tag
         IN  ConvertRow_overwrite(cols, row, i, j + 1,
                [item |-> IF dup
                          THEN [k \in 1..Len(acc.item) |->
                                   IF acc.item[k].tag = c.leaf.tag THEN c.leaf ELSE acc.item[k]]
                          ELSE Append(acc.item, c.leaf),
                 out |-> acc.out \o c.out,
                 exc |-> c.exc])

\* the loop over the columns of row i, from column j on; acc = [item, out, exc]
RECURSIVE ConvertRow(_, _, _, _, _)
ConvertRow(cols, row, i, j, acc) ==
    IF acc.exc \/ j > Len(cols) THEN acc
    ELSE LET c == ConvertCell(cols, row, i, cols[j])
         IN  ConvertRow(cols, row, i, j + 1,
                        [item |-> Append(acc.item, c.leaf),
                         out |-> acc.out \o c.out,
                         exc |-> c.exc])

\* the loop over the rows, from row i (0-based label) on; acc = [root, out, exc]
RECURSIVE ConvertRows(_, _, _, _)
ConvertRows(cols, rows, i, acc) ==
    IF acc.exc \/ i >= Len(rows) THEN acc
    ELSE LET r == ConvertRow(cols, rows[i + 1], i, 1,
                             [item |-> <<>>, out |-> acc.out, exc |-> FALSE])
         IN  ConvertRows(cols, rows, i + 1,
                         [root |-> Append(acc.root, r.item), out |-> r.out, exc |-> r.exc])

RECURSIVE Flatten(_)
Flatten(ss) == IF ss = <<>> THEN <<>> ELSE Head(ss) \o Flatten(Tail(ss))

SerLeaf(l) ==
    IF l.text.some /\ l.text.s # <<>>
    THEN <<"<">> \o l.tag \o <<">">> \o escape_cdata(l.text.s) \o <<"<", "/">> \o l.tag \o <<">">>
    ELSE <<"<">> \o l.tag \o <<" ", "/", ">">>

SerItem(item) ==
    IF item = <<>> THEN <<"<", "I", "t", "e", "m", " ", "/", ">">>
    ELSE <<"<", "I", "t", "e", "m", ">">>
         \o Flatten([k \in 1..Len(item) |-> SerLeaf(item[k])])
         \o <<"<", "/", "I", "t", "e", "m", ">">>

\* ET.tostring(root, encoding="utf-8", method="xml"), decoded
tostring(r) ==
    IF r = <<>> THEN <<"<", "R", "o", "o", "t", " ", "/", ">">>
    ELSE <<"<", "R", "o", "o", "t", ">">>
         \o Flatten([k \in 1..Len(r) |-> SerItem(r[k])])
         \o <<"<", "/", "R", "o", "o", "t", ">">>

\* minidom.parseString of the serialized tree: fails unless every tag is a name
\* and every leaf's character data is well formed; decodes the data once
parseString(r) ==
    [ok |-> \A i \in 1..Len(r) : \A j \in 1..Len(r[i]) :
                /\ IsXmlName(r[i][j].tag)
                /\ TextOk(escape_cdata(r[i][j].text.s)),
     dom |-> [i \in 1..Len(r) |-> [j \in 1..Len(r[i]) |->
                [tag |-> r[i][j].tag,
                 text |-> IF r[i][j].text.some /\ r[i][j].text.s # <<>>
                          THEN Some(Unescape(escape_cdata(r[i][j].text.s)))
                          ELSE None]]]]

\* toprettyxml: the document text, leaf by leaf (a leaf with no text node is <tag/>)
toprettyxml(dom) ==
    [i \in 1..Len(dom) |-> [j \in 1..Len(dom[i]) |->
        [tag |-> dom[i][j].tag,
         cdata |-> IF dom[i][j].text.some THEN Some(write_data(dom[i][j].text.s)) ELSE None]]]

\* the except branch of the formatting step: what it writes before re-raising
FormatDiagnostics_no_snippet(xml_string) == <<EvFormatError, EvSnippetHeader>>

FormatDiagnostics(xml_string) ==
    <<EvFormatError, EvSnippetHeader,
      EvRawXml(SubSeq(xml_string, 1, Min(SnippetLen, Len(xml_string))))>>

\* result: [raised, cols (the caller's new column labels), root, out, buf]
convert_df_to_pretty_xml(d) ==
    LET cols == [k \in 1..Len(d.cols) |-> clean_column_name(d.cols[k])]
        data == [i \in 1..Len(d.rows) |->
                    [j \in 1..Len(d.cols) |-> clean_data(d.rows[i][j])]]
        built == ConvertRows(cols, data, 0, [root |-> <<>>, out |-> <<>>, exc |-> FALSE])
        xml_string == tostring(built.root)
        parsed == parseString(built.root)
    IN  IF built.exc
        THEN [raised |-> TRUE, cols |-> cols, root |-> built.root, out |-> built.out,
              buf |-> [some |-> FALSE, doc |-> <<>>]]
        ELSE IF ~parsed.ok
        THEN [raised |-> TRUE, cols |-> cols, root |-> built.root,
              out |-> built.out \o FormatDiagnostics(xml_string),
              buf |-> [some |-> FALSE, doc |-> <<>>]]
        ELSE [raised |-> FALSE, cols |-> cols, root |-> built.root, out |-> built.out,
              buf |-> [some |-> TRUE, doc |-> toprettyxml(parsed.dom)]]

-----------------------------------------------------------------------------
(* test_conversion_accuracy *)

\* ET.parse and the loop that fills xml_data: per Item, the leaves' tag and text
ET_parse(doc) ==
    [i \in 1..Len(doc) |-> [j \in 1..Len(doc[i]) |->
        [tag |-> doc[i][j].tag,
         text |-> IF doc[i][j].cdata.some THEN Some(Unescape(doc[i][j].cdata.s)) ELSE None]]]

\* a verifier that compensates for the double escaping: decodes twice more
DictGet_compensating(item, key) ==
    LET at == {k \in 1..Len(item) : item[k].tag = key}
    IN  IF at = {} THEN None
        ELSE LET x == item[CHOOSE k \in at : \A m \in at : m <= k].text
             IN  [x EXCEPT !.s = Unescape(Unescape(@))]

\* xml_row.get(key): the dict keeps the last leaf of a tag
DictGet(item, key) ==
    LET at == {k \in 1..Len(item) : item[k].tag = key}
    IN  IF at = {} THEN None
        ELSE item[CHOOSE k \in at : \A m \in at : m <= k].text

NoReport == [record |-> 0, column |-> <<>>, orig |-> <<>>, got |-> None]

\* the bug of scanning column by column
RECURSIVE Compare_column_major(_, _, _, _)
Compare_column_major(d, xml_data, i, j) ==
    IF j > Len(d.cols) THEN [kind |-> "ok", report |-> NoReport]
    ELSE IF i > Len(d.rows) THEN Compare_column_major(d, xml_data, 1, j + 1)
    ELSE LET key == d.cols[j]
             v == Pick(d.cols, d.rows[i], key)
         IN  IF StrRaises(v) \/ i > Len(xml_data)
             THEN [kind |-> "raise", report |-> NoReport]
             ELSE LET got == DictGet(xml_data[i], key)
                  IN  IF ~got.some \/ got.s # Str(key, v)
                      THEN [kind |-> "mismatch",
                            report |-> [record |-> i, column |-> key,
                                        orig |-> Str(key, v), got |-> got]]
                      ELSE Compare_column_major(d, xml_data, i + 1, j)

\* the comparison loops from row i, column j (both 1-based here) on
RECURSIVE Compare(_, _, _, _)
Compare(d, xml_data, i, j) ==
    IF i > Len(d.rows) THEN [kind |-> "ok", report |-> NoReport]
    ELSE IF j > Len(d.cols) THEN Compare(d, xml_data, i + 1, 1)
    ELSE LET key == d.cols[j]
             v == Pick(d.cols, d.rows[i], key)
         IN  IF StrRaises(v) \/ i > Len(xml_data)
             THEN [kind |-> "raise", report |-> NoReport]
             ELSE LET got == DictGet(xml_data[i], key)
                  IN  IF ~got.some \/ got.s # Str(key, v)
                      THEN [kind |-> "mismatch",
                            report |-> [record |-> i, column |-> key,
                                        orig |-> Str(key, v), got |-> got]]
                      ELSE Compare(d, xml_data, i, j + 1)

\* the bug of a verifier that throws on a mismatch instead of reporting it
test_conversion_accuracy_throwing(d, buf) ==
    LET r == Compare(d, ET_parse(buf.doc), 1, 1)
    IN  IF r.kind = "mismatch" THEN [kind |-> "raise", report |-> NoReport] ELSE r

test_conversion_accuracy(d, buf) == Compare(d, ET_parse(buf.doc), 1, 1)

-----------------------------------------------------------------------------
(* Inputs *)

CellChars == {"a", "&", "<", "'"}
ColChars == {"a", "1", " ", "-"}
TextChars == {"a", "&", "<", ">", "\"", "'"}

StrCells(chars, lo, hi) == {[kind |-> "str", s |-> t] : t \in SeqsUpTo(chars, lo, hi)}
NumCells == {[kind |-> "num", s |-> <<"1">>]}
ObjCells == {[kind |-> "obj", s |-> <<>>], [kind |-> "objf", s |-> <<>>]}

Distinct(c) == \A a, b \in 1..Len(c) : a # b => c[a] # c[b]

ColNames == SeqsUpTo(ColChars, 1, MaxColLen)

\* the column labels of a table: unique raw names
ColSeqs == {c \in SeqsUpTo(ColNames, 1, MaxCols) : Distinct(c)}

\* what pd.read_csv / pd.read_excel put in a cell: text and numbers
ReaderCells == StrCells(CellChars, 0, MaxLen) \cup NumCells

\* what a DataFrame passed by a caller of the two functions may hold
AnyCells == ReaderCells \cup ObjCells

\* one-cell tables with a longer text
TextCells == StrCells(TextChars, MaxLen + 1, MaxTextLen)

File(t) == [kind |-> "table", table |-> t]
NoFile == [kind |-> "nofile", table |-> [cols |-> <<>>, rows |-> <<>>]]
Unreadable == [kind |-> "unreadable", table |-> [cols |-> <<>>, rows |-> <<>>]]

NoDf == [cols |-> <<>>, rows |-> <<>>]
NoBuf == [some |-> FALSE, doc |-> <<>>]
NoTest == [some |-> FALSE, kind |-> "none", report |-> NoReport]

InitRest ==
    /\ root = <<>>
    /\ xml_file = NoBuf
    /\ test = NoTest
    /\ out = <<>>
    /\ rawName = <<>>
    /\ cleaned = [done |-> FALSE, s |-> <<>>]

Init ==
    /\ caller \in {"main", "direct"}
    /\ \/ caller = "main" /\ input \in {NoFile, Unreadable}
       \/ \E c \in ColSeqs : \E n \in 0..MaxRows :
            \E r \in [1..n -> [1..Len(c) -> IF caller = "main" THEN ReaderCells ELSE AnyCells]] :
                input = File([cols |-> c, rows |-> r])
       \/ \E name \in ColNames : \E cell \in TextCells :
            input = File([cols |-> <<name>>, rows |-> << <<cell>> >>])
    /\ df = IF caller = "main" THEN NoDf ELSE input.table
    /\ pc = IF caller = "main" THEN "start" ELSE "convert"
    /\ InitRest

-----------------------------------------------------------------------------
(* The cycle of main, and the direct calls *)

\* uploaded_file is None: nothing but the timing line
NoUpload ==
    /\ pc = "start" /\ input.kind = "nofile"
    /\ pc' = "done"
    /\ UNCHANGED <<caller, input, df, root, xml_file, test, out, rawName, cleaned>>

\* pd.read_csv / pd.read_excel raises
ReadFails ==
    /\ pc = "start" /\ input.kind = "unreadable"
    /\ pc' = "except"
    /\ UNCHANGED <<caller, input, df, root, xml_file, test, out, rawName, cleaned>>

ReadFile ==
    /\ pc = "start" /\ input.kind = "table"
    /\ df' = input.table
    /\ out' = out \o <<EvLoaded, EvPreview>>
    /\ pc' = "convert"
    /\ UNCHANGED <<caller, input, root, xml_file, test, rawName, cleaned>>

Convert ==
    /\ pc = "convert"
    /\ LET r == convert_df_to_pretty_xml(df)
       IN  /\ df' = [df EXCEPT !.cols = r.cols]
           /\ root' = r.root
           /\ out' = out \o r.out
           /\ xml_file' = r.buf
           /\ pc' = IF r.raised THEN (IF caller = "main" THEN "except" ELSE "raised")
                    ELSE (IF caller = "main" THEN "download" ELSE "verify")
    /\ UNCHANGED <<caller, input, test, rawName, cleaned>>

DownloadButton ==
    /\ pc = "download"
    /\ out' = out \o <<EvDownload>>
    /\ pc' = "verify"
    /\ UNCHANGED <<caller, input, df, root, xml_file, test, rawName, cleaned>>

Verify ==
    /\ pc = "verify"
    /\ LET r == test_conversion_accuracy(df, xml_file)
       IN  IF r.kind = "raise"
           THEN /\ pc' = IF caller = "main" THEN "except" ELSE "raised"
                /\ test' = test
           ELSE /\ pc' = IF caller = "main" THEN "report" ELSE "returned"
                /\ test' = [some |-> TRUE, kind |-> r.kind, report |-> r.report]
    /\ UNCHANGED <<caller, input, df, root, xml_file, out, rawName, cleaned>>

Report ==
    /\ pc = "report"
    /\ out' = out \o <<IF test.kind = "ok" THEN EvVerified ELSE EvMismatch(test.report)>>
    /\ pc' = "done"
    /\ UNCHANGED <<caller, input, df, root, xml_file, test, rawName, cleaned>>

Except ==
    /\ pc = "except"
    /\ out' = out \o <<EvFailure>>
    /\ pc' = "done"
    /\ UNCHANGED <<caller, input, df, root, xml_file, test, rawName, cleaned>>

Finish ==
    /\ pc = "done"
    /\ out' = out \o <<EvTime>>
    /\ pc' = "end"
    /\ UNCHANGED <<caller, input, df, root, xml_file, test, rawName, cleaned>>

Next ==
    \/ NoUpload
    \/ ReadFails
    \/ ReadFile
    \/ Convert
    \/ DownloadButton
    \/ Verify
    \/ Report
    \/ Except
    \/ Finish

Spec == Init /\ [][Next]_vars

-----------------------------------------------------------------------------
(* clean_column_name on its own *)

NameChars == {"a", "1", "_", " ", "-"}

InitClean ==
    /\ rawName \in SeqsUpTo(NameChars, 0, MaxNameLen)
    /\ cleaned = [done |-> FALSE, s |-> <<>>]
    /\ caller = "none" /\ input = NoFile /\ df = NoDf
    /\ root = <<>> /\ xml_file = NoBuf /\ test = NoTest
    /\ out = <<>> /\ pc = "clean"

CleanName ==
    /\ pc = "clean"
    /\ ~cleaned.done
    /\ cleaned' = [done |-> TRUE, s |-> clean_column_name(rawName)]
    /\ UNCHANGED <<caller, input, df, root, xml_file, test, out, pc, rawName>>

NextClean == CleanName

SpecClean == InitClean /\ [][NextClean]_vars

-----------------------------------------------------------------------------
(* Properties *)

Tbl == input.table
Loaded == input.kind = "table"
RowIx == 1..Len(Tbl.rows)
ColIx == 1..Len(Tbl.cols)
Cell(i, j) == Tbl.rows[i][j]
Specials == {"&", "<", ">", "\"", "'"}
HasChar(s, C) == \E k \in 1..Len(s) : s[k] \in C
Count(a, b) == Cardinality({k \in 1..Len(out) : out[k][1] = a /\ out[k][2] = b})
At(k, a, b) == k \in 1..Len(out) /\ out[k][1] = a /\ out[k][2] = b
Tag(j) == clean_column_name(Tbl.cols[j])
Returned == pc \in {"returned", "report", "done", "end"} /\ test.some
ConvertEnded == pc \in {"raised", "returned", "verify", "download", "report", "except", "done", "end"}

\* ---- C5 -------------------------------------------------------------------
OnlyAlnumUnderscore(s) == \A k \in 1..Len(s) : IsAlnum(s[k]) \/ s[k] = "_"

\* positions of s that start a maximal run of characters outside class P
RunStarts(s, P(_)) == {i \in 1..Len(s) : ~P(s[i]) /\ (i = 1 \/ P(s[i - 1]))}
Kept(s, P(_)) == {i \in 1..Len(s) : P(s[i])}
\* where position i of s lands once every run is one character
Pos(s, P(_), i) == Cardinality({k \in Kept(s, P) \cup RunStarts(s, P) : k <= i})
RunsReplaced(s, o, P(_)) ==
    /\ Len(o) = Pos(s, P, Len(s))
    /\ \A i \in Kept(s, P) : o[Pos(s, P, i)] = s[i]
    /\ \A i \in RunStarts(s, P) : o[Pos(s, P, i)] = "_"

C1_PlainCells ==
    /\ Loaded
    /\ \A i \in RowIx : \A j \in ColIx :
          Cell(i, j).kind \in {"str", "num"} /\ ~HasChar(Cell(i, j).s, Specials)

\* C1: for a table none of whose cells holds & < > " ', converting and then
\* verifying ends with the verifier returning success.
C1_RoundTripSucceeds ==
    (C1_PlainCells /\ pc \in {"raised", "returned", "except", "report", "done", "end"})
        => (test.some /\ test.kind = "ok")

\* ---- C2 -------------------------------------------------------------------
ExpectedText(c) ==
    LET e == html_escape(clean_data(c).s)
    IN  IF c.kind \in {"obj", "objf"} \/ e = <<>> THEN None ELSE Some(e)

\* C2: the document in the returned buffer has one Item per row, in row order,
\* and each Item has one leaf per column, tagged with the sanitized column names
\* in column order; the leaf of a column whose tag is not repeated carries the
\* text of the cell of its own row.
C2_DocumentShape ==
    xml_file.some =>
        LET doc == ET_parse(xml_file.doc)
        IN  /\ Len(doc) = Len(Tbl.rows)
            /\ \A i \in RowIx :
                  /\ Len(doc[i]) = Len(Tbl.cols)
                  /\ \A j \in ColIx :
                        /\ doc[i][j].tag = Tag(j)
                        /\ (\A k \in ColIx : k # j => Tag(k) # Tag(j))
                              => doc[i][j].text = ExpectedText(Cell(i, j))

C2_Witness ==
    /\ xml_file.some
    /\ Len(Tbl.rows) = 2 /\ Len(Tbl.cols) = 2
    /\ Tbl.cols[1] # Tbl.cols[2] /\ Tag(1) = Tag(2)
    /\ Tbl.rows[1] # Tbl.rows[2]
    /\ Len(xml_file.doc[2]) = 2

C2_WitnessEmpty == xml_file.some /\ Loaded /\ Tbl.rows = <<>> /\ xml_file.doc = <<>>

\* ---- C3 -------------------------------------------------------------------
C3_ApostropheTable ==
    /\ Loaded
    /\ \A j \in ColIx : IsXmlName(Tag(j)) /\ \A k \in ColIx : k # j => Tag(k) # Tag(j)
    /\ \A i \in RowIx : \A j \in ColIx :
          /\ Cell(i, j).kind = "str" /\ Cell(i, j).s # <<>>
          /\ ~HasChar(Cell(i, j).s, {"&", "<", ">", "\""})
    /\ \E i \in RowIx : \E j \in ColIx : HasChar(Cell(i, j).s, {"'"})

\* C3: a table with a cell holding an apostrophe (and no & < >) round-trips:
\* the verifier returns success.
C3_ApostropheRoundTrips == (C3_ApostropheTable /\ Returned) => test.kind = "ok"

\* ---- C4 -------------------------------------------------------------------
C4_HasMarkupCell ==
    /\ Loaded
    /\ \E i \in RowIx : \E j \in ColIx :
          Cell(i, j).kind = "str" /\ HasChar(Cell(i, j).s, {"&", "<", ">"})

\* C4: when the table holds a textual cell with & < or >, the verifier applied
\* to the converter's output returns a mismatch report, never success.
C4_MarkupCellMismatch == (C4_HasMarkupCell /\ test.some) => test.kind = "mismatch"

C4_Witness ==
    /\ C4_HasMarkupCell /\ test.some /\ test.kind = "mismatch"
    /\ test.report.orig = <<"a", "&">>
    /\ test.report.got = Some(<<"a", "&", "a", "m", "p", ";", "a", "m", "p", ";">>)

\* ---- C6 -------------------------------------------------------------------
\* C6: the table handed to the conversion is read-only: once loaded, the caller's
\* table keeps its column names and its cell values.
C6_TableUnchanged == (Loaded /\ pc # "start") => df = Tbl

\* ---- C7 -------------------------------------------------------------------
NoObjCell == \A i \in RowIx : \A j \in ColIx : Cell(i, j).kind \in {"str", "num"}

\* the cell loops ran to the end and the serialized tree does not parse
PrettyFailed == Loaded /\ ConvertEnded /\ NoObjCell /\ ~parseString(root).ok

\* C7: when pretty-printing fails, the formatting diagnostic, the snippet header
\* and the first 500 characters of the raw XML are written in this order, before
\* any top-level message; no buffer is returned and the failure propagates; in
\* main the cycle ends with one top-level failure message after them, no download
\* button and no verification outcome.
C7_FormattingFailure ==
    PrettyFailed =>
        /\ ~xml_file.some
        /\ pc \in {"raised", "except", "done", "end"}
        /\ \E k \in 1..Len(out) :
              /\ At(k, "st.error", "formatting")
              /\ At(k + 1, "st.write", "snippet header")
              /\ At(k + 2, "st.write", "raw xml")
              /\ out[k + 2][3] = SubSeq(tostring(root), 1, Min(500, Len(tostring(root))))
              /\ \A m \in 1..(k + 2) : ~At(m, "st.error", "failure")
              /\ (caller = "main" /\ pc \in {"done", "end"})
                    => At(k + 3, "st.error", "failure")
        /\ Count("st.error", "formatting") = 1
        /\ Count("st.error", "failure") <= 1
        /\ Count("st.download_button", "output.xml") = 0
        /\ Count("st.success", "verified") = 0
        /\ Count("st.error", "mismatch") = 0
        /\ ~test.some

C7_Witness ==
    /\ PrettyFailed /\ caller = "main" /\ pc = "end"
    /\ Len(Tbl.rows) = 2
    /\ Count("st.error", "failure") = 1

C8_WitnessUnreadable ==
    caller = "main" /\ pc = "end" /\ input.kind = "unreadable" /\ Count("st.error", "failure") = 1

\* ---- C9 -------------------------------------------------------------------
\* the verifier's comparison of the cell of row i under the j-th column label
Differs(i, j) ==
    LET key == df.cols[j]
        got == DictGet(ET_parse(xml_file.doc)[i], key)
    IN  ~got.some \/ got.s # Str(key, Pick(df.cols, df.rows[i], key))

Before(i, j, i2, j2) == i < i2 \/ (i = i2 /\ j < j2)

C9_WitnessOk == test.some /\ test.kind = "ok" /\ Len(Tbl.rows) = 2 /\ Len(Tbl.cols) = 2

\* ---- C10 ------------------------------------------------------------------
CellFailed == Count("st.error", "cell") >= 1

\* C10: a cell whose conversion fails is reported and skipped: the function
\* still returns a buffer, the failing cell's leaf exists without text, and the
\* leaf of every other cell carries text.
C10_CellFailureNonFatal ==
    CellFailed =>
        /\ xml_file.some
        /\ Len(root) = Len(Tbl.rows)
        /\ \A i \in RowIx :
              /\ Len(root[i]) = Len(Tbl.cols)
              /\ \A j \in ColIx : root[i][j].text.some <=> Cell(i, j).kind \in {"str", "num"}

====
